---- MODULE Spec2Model ----
(***************************************************************************)
(* User account management of drf_simple_shop: the user manager            *)
(* (users/managers/users.py) and the user serializers                      *)
(* (users/serializers/api/users.py), over a store of User rows and their   *)
(* Profile rows.                                                           *)
(*                                                                         *)
(* Strings are sequences of one-character strings.  An Optional[str] is a  *)
(* sequence of at most one string: None is << >>, the string s is <<s>>.   *)
(***************************************************************************)
EXTENDS Integers, Sequences, FiniteSets, Bags, TLC

VARIABLES users, profiles, last, req, inflight

vars == <<users, profiles, last, req, inflight>>

-----------------------------------------------------------------------------
(* Bounds of the model.                                                    *)

\* stored users (rows of the user table)
MaxUsers == 2
\* length of an email argument handed to the manager
MaxEmailLen == 3
\* length of a phone number argument handed to the manager
MaxPhoneLen == 2
\* serializer requests that have passed is_valid() and not yet finished save()
MaxInFlight == 2

-----------------------------------------------------------------------------
(* Strings.                                                                *)

None == << >>
Some(s) == <<s>>

\* Python truthiness of an Optional[str]: None and '' are falsy.
Truthy(o) == o # None /\ o[1] # << >>

SeqsUpTo(S, n) == UNION {[1..k -> S] : k \in 0..n}

\* str.lower(), on the letters the model draws from
LowerChar(c) == IF c = "A" THEN "a" ELSE c
Lower(s) == [i \in 1..Len(s) |-> LowerChar(s[i])]

IsSpace(c) == c = " "

\* str.strip(): leading and trailing whitespace removed
RECURSIVE LStrip(_)
LStrip(s) == IF s # << >> /\ IsSpace(Head(s)) THEN LStrip(Tail(s)) ELSE s
RECURSIVE RStrip(_)
RStrip(s) == IF s # << >> /\ IsSpace(s[Len(s)])
             THEN RStrip(SubSeq(s, 1, Len(s) - 1)) ELSE s
Strip(s) == RStrip(LStrip(s))

\* '@' in s
HasAt(s) == \E i \in 1..Len(s) : s[i] = "@"
\* s.find('@') and s.rfind('@'), 1-based, for a string that holds '@'
FirstAt(s) == CHOOSE i \in 1..Len(s) : s[i] = "@" /\ \A j \in 1..(i - 1) : s[j] # "@"
LastAt(s) == CHOOSE i \in 1..Len(s) : s[i] = "@" /\ \A j \in (i + 1)..Len(s) : s[j] # "@"

\* s.split('@')[0]
SplitFirst(s) == IF HasAt(s) THEN SubSeq(s, 1, FirstAt(s) - 1) ELSE s

\* BaseUserManager.normalize_email: the domain part (after the last '@') is
\* lowercased and the address stripped; an address without '@' is returned
\* as it is (the ValueError of the unpacking is swallowed).
normalize_email(email) ==
    LET e == Strip(email) IN
    IF HasAt(e)
    THEN SubSeq(e, 1, LastAt(e) - 1) \o <<"@">> \o Lower(SubSeq(e, LastAt(e) + 1, Len(e)))
    ELSE email

-----------------------------------------------------------------------------
(* The User model: Role choices, field defaults, password hashing.         *)

ADMIN == "admin"
MANAGER == "manager"
CUSTOMER == "customer"
\* User.Role.choices
RoleChoices == {ADMIN, MANAGER, CUSTOMER}

\* AbstractBaseUser.set_password: make_password(raw); None gives an unusable
\* password that no raw password matches.
UnusablePassword == <<"!">>
make_password(raw) == IF raw = None THEN UnusablePassword ELSE <<"hash", raw[1]>>
\* AbstractBaseUser.check_password
check_password(user, raw) == raw # None /\ user.password = <<"hash", raw[1]>>

\* A fresh model instance: self.model(username=username, **extra_fields)
Has(extra, k) == k \in DOMAIN extra
Get(extra, k, default) == IF Has(extra, k) THEN extra[k] ELSE default
setdefault(extra, k, v) == IF Has(extra, k) THEN extra ELSE extra @@ (k :> v)

NewUser(username, extra) ==
    [ username     |-> username,
      email        |-> None,
      phone_number |-> None,
      password     |-> UnusablePassword,
      first_name   |-> Get(extra, "first_name", << >>),
      last_name    |-> Get(extra, "last_name", << >>),
      role         |-> Get(extra, "role", CUSTOMER),
      is_superuser |-> Get(extra, "is_superuser", FALSE),
      is_staff     |-> Get(extra, "is_staff", FALSE),
      is_active    |-> Get(extra, "is_active", TRUE) ]

DefaultProfile == << >>

-----------------------------------------------------------------------------
(* CustomUserManager.                                                      *)

\* __check_email_or_phone_number: email or phone_number
__check_email_or_phone_number(email, phone_number) ==
    IF Truthy(email) THEN email ELSE phone_number

NoUser == << >>

\* A variant that takes the phone number before the email.
derive_username_phone_first(email, phone_number, username) ==
    IF ~Truthy(username)
    THEN LET value == (IF Truthy(phone_number) THEN phone_number ELSE email)[1]
         IN  IF HasAt(value) THEN SplitFirst(value) ELSE value
    ELSE username[1]

\* __create_user, the username when none is given: from the normalized email
\* or the phone number, up to its first '@'
derive_username(email, phone_number, username) ==
    IF ~Truthy(username)
    THEN LET value == __check_email_or_phone_number(email, phone_number)[1]
         IN  IF HasAt(value) THEN SplitFirst(value) ELSE value
    ELSE username[1]

\* A variant that leaves the role of a superuser as constructed.
admin_role_kept(u) == u

\* __create_user: a superuser gets the admin role
admin_role(u) == IF u.is_superuser THEN [u EXCEPT !.role = ADMIN] ELSE u

\* __create_user after the check, up to the save: the user handed to save()
build_user(phone_number, email, password, username, extra) ==
    LET email1 == IF Truthy(email) THEN Some(normalize_email(email[1])) ELSE email
        u0 == NewUser(derive_username(email1, phone_number, username), extra)
        u1 == IF Truthy(email1) THEN [u0 EXCEPT !.email = email1] ELSE u0
        u2 == IF Truthy(phone_number) THEN [u1 EXCEPT !.phone_number = phone_number] ELSE u1
        u3 == admin_role(u2)
    IN  [u3 EXCEPT !.password = make_password(password)]

\* A variant whose check is `is None` instead of truthiness: empty strings
\* pass it, and the derivation then fails on a None value or yields ''.
create_user_none_check(phone_number, email, password, username, extra) ==
    IF email = None /\ phone_number = None /\ username = None
    THEN [err |-> "ParseError", user |-> NoUser]
    ELSE IF ~Truthy(username) /\ ~Truthy(email) /\ phone_number = None
    THEN [err |-> "TypeError", user |-> NoUser]
    ELSE [err |-> "none",
          user |-> <<build_user(phone_number, email, password, username, extra)>>]

\* __create_user: the error raised, or the user that is handed to save()
__create_user(phone_number, email, password, username, extra) ==
    IF ~(Truthy(email) \/ Truthy(phone_number) \/ Truthy(username))
    THEN [err |-> "ParseError", user |-> NoUser]
    ELSE [err |-> "none",
          user |-> <<build_user(phone_number, email, password, username, extra)>>]

\* create_user: the defaults, then __create_user
create_user(phone_number, email, password, username, extra) ==
    __create_user(phone_number, email, password, username,
                     setdefault(setdefault(extra, "is_superuser", FALSE), "is_active", TRUE))

\* create_superuser: the defaults, the is_superuser check, then __create_user
create_superuser(email, phone_number, password, username, extra) ==
    LET e == setdefault(setdefault(extra, "is_superuser", TRUE), "is_active", TRUE) IN
    IF ~e["is_superuser"]
    THEN [err |-> "ValueError", user |-> NoUser]
    ELSE __create_user(phone_number, email, password, username, e)

-----------------------------------------------------------------------------
(* The store: the user table and the profile table, row i of each for the  *)
(* user with primary key i.  `users` and `profiles` are the committed      *)
(* rows.  A serializer request takes two calls of its view, is_valid() and *)
(* save(), and nothing is locked between them: `inflight` holds the        *)
(* requests that have passed is_valid(), each with the objects its view    *)
(* loaded, and for a user update inside its atomic block the row the block *)
(* has written.  It is a bag: two equal requests are two requests.         *)

Ids == 1..Len(users)

NoReq == [op |-> "none"]

Init ==
    /\ users = << >>
    /\ profiles = << >>
    /\ last = [op |-> "init", err |-> "none"]
    /\ req = NoReq
    /\ inflight = EmptyBag

\* The requests in flight, and the bag with one t less, one t more, and
\* with t2 in the place of t.
InFlight(S) == BagToSet(S)
Without(S, t) == S (-) SetToBag({t})
With(S, t) == S (+) SetToBag({t})
Replaced(S, t, t2) == With(Without(S, t), t2)

\* The atomic blocks of user updates that are open, and what they hold in
\* the table.  Under a database with row locks the row a block has written
\* is locked, and its username, as committed and as written, is held in
\* the unique index until the block ends: a write of that row or of that
\* username waits.  Under SQLite the block holds the whole database, and
\* the write of another request ends with OperationalError (database is
\* locked).  The settings that name the database are not part of the
\* source: a write meets either.
OpenBlocks(S) ==
    {t \in InFlight(S) : t.op = "update" /\ t.stage \in {"user_saved", "profile_saved"}}
DatabaseLocked(S) == IF OpenBlocks(S) # {} THEN {"OperationalError"} ELSE {}
RowLocked(S, instance) == \E t \in OpenBlocks(S) : t.instance = instance
HeldUsernames(rows, S) ==
    UNION {{rows[t.instance].username, t.user.username} : t \in OpenBlocks(S)}

\* Model.save() of a row.  The username is unique, as in the framework's
\* user table: a row that repeats a stored username is refused with
\* IntegrityError.  Whether the email is unique is the model class's choice:
\* a row that repeats a stored email may be refused or accepted.
Rows(rows) == {rows[i] : i \in 1..Len(rows)}
OtherRows(rows, instance) == {rows[i] : i \in (1..Len(rows)) \ {instance}}
RepeatsUsername(stored, u) == \E r \in stored : r.username = u.username
RepeatsEmail(stored, u) == \E r \in stored : u.email # None /\ r.email = u.email
SaveOutcomes(stored, u) ==
    IF RepeatsUsername(stored, u) THEN {"IntegrityError"}
    ELSE IF RepeatsEmail(stored, u) THEN {"none", "IntegrityError"}
    ELSE {"none"}

\* UniqueValidator of a ModelSerializer on the username field: run by
\* is_valid() against the committed rows other than the instance
UniqueValidator(stored, username) == ~RepeatsUsername(stored, [username |-> username])

\* user.save(using=self._db) at the end of __create_user, for the result r
\* of the manager call; the call is logged in `last`, an IntegrityError
\* under the name the caller gives it.  An insert of a username that an
\* open block holds waits for the block to end, or ends with
\* OperationalError; so may any insert while a block is open.
SaveNew(r, call, integrity) ==
    IF r.err # "none"
    THEN /\ UNCHANGED <<users, profiles>>
         /\ last' = call @@ [err |-> r.err]
    ELSE \E out \in DatabaseLocked(inflight)
                      \cup (IF r.user[1].username \in HeldUsernames(users, inflight)
                            THEN {} ELSE SaveOutcomes(Rows(users), r.user[1])) :
            IF out = "none"
            THEN /\ Len(users) < MaxUsers
                 /\ users' = Append(users, r.user[1])
                 /\ profiles' = Append(profiles, DefaultProfile)
                 /\ last' = call @@ [err |-> "none"]
            ELSE /\ UNCHANGED <<users, profiles>>
                 /\ last' = call @@ [err |-> IF out = "IntegrityError" THEN integrity
                                             ELSE out]

\* User.objects.create_user(...)
CreateUser(phone_number, email, password, username, extra) ==
    /\ SaveNew(create_user(phone_number, email, password, username, extra),
               [op |-> "create_user", phone_number |-> phone_number, email |-> email,
                username |-> username, extra |-> extra],
               "IntegrityError")
    /\ UNCHANGED <<req, inflight>>

\* User.objects.create_superuser(...)
CreateSuperuser(email, phone_number, password, username, extra) ==
    /\ SaveNew(create_superuser(email, phone_number, password, username, extra),
               [op |-> "create_superuser", phone_number |-> phone_number, email |-> email,
                username |-> username, extra |-> extra],
               "IntegrityError")
    /\ UNCHANGED <<req, inflight>>

\* A request that has passed is_valid() is held until its save().
Accept(t) == BagCardinality(inflight) < MaxInFlight /\ inflight' = With(inflight, t)

-----------------------------------------------------------------------------
(* RegistrationSerializer.                                                 *)

\* serializers.EmailField(): one '@' with a name before it and a domain after
\* it, and no whitespace.
IsEmailAddress(value) ==
    /\ HasAt(value)
    /\ FirstAt(value) = LastAt(value)
    /\ 1 < FirstAt(value) /\ FirstAt(value) < Len(value)
    /\ \A i \in 1..Len(value) : ~IsSpace(value[i])

\* User.objects.filter(email=email).exists(): an exact match
EmailExists(rows, email) == \E i \in 1..Len(rows) : rows[i].email = Some(email)

\* validate_email: the lowercased address, or ParseError when a stored user
\* has exactly that address.
validate_email(rows, value) ==
    LET email == Lower(value) IN
    IF EmailExists(rows, email)
    THEN [err |-> "ParseError", email |-> email]
    ELSE [err |-> "none", email |-> email]

\* is_valid() of a registration: the field validation (the email field with
\* validate_email, whose ParseError leaves is_valid() at once; the username
\* with its UniqueValidator; password_ok is the verdict of the configured
\* password validators).  The validated data hold the lowercased email.
RegisterValidate(username, email, password, extra, password_ok) ==
    LET call == [op |-> "register", step |-> "is_valid", username |-> username,
                 email |-> email]
        v == validate_email(users, email)
    IN
    /\ IF ~IsEmailAddress(email)
       THEN UNCHANGED inflight /\ last' = call @@ [err |-> "ValidationError"]
       ELSE IF v.err # "none"
       THEN UNCHANGED inflight /\ last' = call @@ [err |-> v.err]
       ELSE IF \/ ~password_ok \/ username = << >> \/ password = << >>
               \/ ~UniqueValidator(Rows(users), username)
       THEN UNCHANGED inflight /\ last' = call @@ [err |-> "ValidationError"]
       ELSE /\ Accept([op |-> "register", stage |-> "validated", username |-> username,
                       email |-> v.email, password |-> password, extra |-> extra])
            /\ last' = call @@ [err |-> "pending"]
    /\ UNCHANGED <<users, profiles, req>>

\* save() of a validated registration t: UserCreateSerializer.create calls
\* User.objects.create_user(**validated_data) and turns the IntegrityError
\* of the insert into a ValidationError.
RegisterSave(t) ==
    /\ BagIn(t, inflight) /\ t.op = "register"
    /\ SaveNew(create_user(None, Some(t.email), Some(t.password), Some(t.username), t.extra),
               [op |-> "register", step |-> "save", username |-> t.username,
                email |-> t.email],
               "ValidationError")
    /\ inflight' = Without(inflight, t)
    /\ UNCHANGED req

-----------------------------------------------------------------------------
(* ChangePasswordSerializer.                                               *)

\* A variant that lets every old_password pass.
ChangePassword_validate_unchecked(rows, current_user, old_password) == "none"

\* validate: the current user's password is checked against old_password
ChangePassword_validate(rows, current_user, old_password) ==
    IF ~check_password(rows[current_user], Some(old_password))
    THEN "ParseError" ELSE "none"

\* update: the password of the instance the view loaded is set and the
\* instance saved, every field of it
ChangePassword_update(rows, instance, object, new_password) ==
    [rows EXCEPT ![instance] = [object EXCEPT !.password = make_password(Some(new_password))]]

\* is_valid() of a password change request by current_user on instance: the
\* two fields (both required and not blank; new_password through
\* validate_new_password, whose verdict is new_ok), then validate, which
\* pops old_password: the validated data hold new_password alone.
ChangePasswordValidate(current_user, instance, old_password, new_password, new_ok) ==
    LET call == [op |-> "change_password", step |-> "is_valid",
                 current_user |-> current_user, instance |-> instance,
                 old_password |-> old_password, new_password |-> new_password,
                 new_ok |-> new_ok]
        e == ChangePassword_validate(users, current_user, old_password)
    IN
    /\ IF old_password = << >> \/ new_password = << >> \/ ~new_ok
       THEN UNCHANGED inflight /\ last' = call @@ [err |-> "ValidationError"]
       ELSE IF e # "none"
       THEN UNCHANGED inflight /\ last' = call @@ [err |-> e]
       ELSE /\ Accept([op |-> "change_password", stage |-> "validated",
                       instance |-> instance, object |-> users[instance],
                       new_password |-> new_password])
            /\ last' = call @@ [err |-> "pending"]
    /\ UNCHANGED <<users, profiles, req>>

\* save() of a validated password change t: update
ChangePasswordSave(t) ==
    /\ BagIn(t, inflight) /\ t.op = "change_password"
    /\ users' = ChangePassword_update(users, t.instance, t.object, t.new_password)
    /\ last' = [op |-> "change_password", step |-> "save", instance |-> t.instance,
                object |-> t.object, new_password |-> t.new_password, err |-> "none"]
    /\ inflight' = Without(inflight, t)
    /\ UNCHANGED <<profiles, req>>

-----------------------------------------------------------------------------
(* UserUpdateRoleSerializer.                                               *)

\* update: the ParseError for an unknown role is built and dropped (it is
\* not raised), so every role goes on to be stored.
UpdateRole_update(u, current_role) ==
    LET u1 == IF current_role \in {ADMIN, MANAGER} THEN [u EXCEPT !.is_staff = TRUE] ELSE u
    IN  [err |-> "none", user |-> [u1 EXCEPT !.role = current_role]]

\* is_valid() of a role update of the instance the view loaded.  The role
\* field is built from User.role: when that declares the Role choices, a
\* role outside them is refused here; when it does not, every role passes.
\* The User model is not part of the source: declares_choices is either.
UpdateRoleValidate(instance, role, declares_choices) ==
    LET call == [op |-> "update_role", step |-> "is_valid", instance |-> instance,
                 role |-> role]
    IN
    /\ IF declares_choices /\ role \notin RoleChoices
       THEN UNCHANGED inflight /\ last' = call @@ [err |-> "ValidationError"]
       ELSE /\ Accept([op |-> "update_role", stage |-> "validated", instance |-> instance,
                       object |-> users[instance], role |-> role])
            /\ last' = call @@ [err |-> "pending"]
    /\ UNCHANGED <<users, profiles, req>>

\* save() of a validated role update t: update, on the instance the view
\* loaded; instance.save() writes every field of it.
UpdateRoleSave(t) ==
    LET r == UpdateRole_update(t.object, t.role) IN
    /\ BagIn(t, inflight) /\ t.op = "update_role"
    /\ users' = IF r.err = "none" THEN [users EXCEPT ![t.instance] = r.user] ELSE users
    /\ last' = [op |-> "update_role", step |-> "save", instance |-> t.instance,
                role |-> t.role, err |-> r.err]
    /\ inflight' = Without(inflight, t)
    /\ UNCHANGED <<profiles, req>>

-----------------------------------------------------------------------------
(* UserUpdateSerializer: the update runs inside transaction.atomic().  Its *)
(* steps are is_valid(), the writes of the block and the block's exit;     *)
(* every other request reads the committed rows.                           *)

\* ModelSerializer.update: setattr(instance, attr, value) for every item of
\* validated_data
SetAttrs(u, data) == [f \in DOMAIN u |-> IF f \in DOMAIN data THEN data[f] ELSE u[f]]

\* A variant without the atomic block: the save is committed at once.
SavedAtOnce(rows, instance, u) == [rows EXCEPT ![instance] = u]

\* A save() inside `with transaction.atomic()`: the committed rows do not
\* change before the block exits.
SavedInAtomic(rows, instance, u) == rows

\* the log record of a step of an update
UpdateCall(step, err) == [op |-> "update", step |-> step, err |-> err]

\* is_valid() of an update of the instance the view loaded: a username in
\* the data goes through the UniqueValidator.
UpdateValidate(instance, data, profile_data) ==
    LET t == [op |-> "update", stage |-> "validated", instance |-> instance,
              object |-> users[instance], data |-> data, profile_data |-> profile_data]
    IN
    /\ IF Has(data, "username")
          /\ ~UniqueValidator(OtherRows(users, instance), data["username"])
       THEN UNCHANGED inflight /\ last' = UpdateCall("is_valid", "ValidationError")
       ELSE Accept(t) /\ UNCHANGED last
    /\ UNCHANGED <<users, profiles, req>>

\* update, to the end of super().update(), of a validated update t: profile
\* is popped, the block is entered, the user fields are set and the user
\* saved (against the constraints of the table and the other rows).  The
\* save waits while another open block holds the row or the username, or
\* ends with OperationalError; so may any save while a block is open.
UpdateUser(t) ==
    LET u == SetAttrs(t.object, t.data)
        waits == \/ RowLocked(inflight, t.instance)
                 \/ {u.username, users[t.instance].username}
                        \cap HeldUsernames(users, inflight) # {}
    IN
    /\ BagIn(t, inflight) /\ t.op = "update" /\ t.stage = "validated"
    /\ \E out \in DatabaseLocked(inflight)
                    \cup (IF waits THEN {}
                          ELSE SaveOutcomes(OtherRows(users, t.instance), u)) :
          IF out = "none"
          THEN /\ inflight' = Replaced(inflight, t,
                                       [t EXCEPT !.stage = "user_saved"] @@ [user |-> u])
               /\ users' = SavedInAtomic(users, t.instance, u)
               /\ UNCHANGED last
          ELSE /\ inflight' = Without(inflight, t)
               /\ UNCHANGED users
               /\ last' = UpdateCall("save", out)
    /\ UNCHANGED <<profiles, req>>

\* _update_profile of an open block t, when profile_data is truthy: the
\* profile serializer validates (valid is its verdict) and saves, or
\* raises, and the raise leaves the block and rolls it back.
UpdateProfile(t, valid) ==
    /\ BagIn(t, inflight) /\ t.op = "update" /\ t.stage = "user_saved"
    /\ Truthy(t.profile_data)
    /\ IF valid
       THEN /\ inflight' = Replaced(inflight, t, [t EXCEPT !.stage = "profile_saved"])
            /\ UNCHANGED last
       ELSE /\ inflight' = Without(inflight, t)
            /\ last' = UpdateCall("save", "ValidationError")
    /\ UNCHANGED <<users, profiles, req>>

\* The exit of the atomic block of t without an exception: the commit.
UpdateCommit(t) ==
    /\ BagIn(t, inflight) /\ t.op = "update"
    /\ \/ t.stage = "profile_saved"
       \/ t.stage = "user_saved" /\ ~Truthy(t.profile_data)
    /\ users' = [users EXCEPT ![t.instance] = t.user]
    /\ profiles' = IF t.stage = "profile_saved"
                   THEN [profiles EXCEPT ![t.instance] = t.profile_data[1]]
                   ELSE profiles
    /\ inflight' = Without(inflight, t)
    /\ last' = UpdateCall("save", "none")
    /\ UNCHANGED req

-----------------------------------------------------------------------------
(* Arguments the requests are drawn from.                                  *)

Str_a == <<"a">>
Str_p == <<"p">>
Str_q == <<"q">>
Str_u == <<"u">>
Str_v == <<"v">>
Str_w == <<"w">>
Str_x == <<"x">>
Str_y == <<"y">>
Email_a == <<"a", "@", "a">>
Email_A == <<"A", "@", "a">>
NoExtra == << >>

\* manager calls and registrations on one store
AcctEmails == {None, Some(<< >>), Some(Email_a), Some(Email_A)}
AcctPhones == {None}
AcctUsernames == {None, Some(Str_u)}
UserExtras == {NoExtra}
SuperuserExtras == {NoExtra, [is_superuser |-> FALSE], [role |-> MANAGER]}
RegEmails == {Email_a, Email_A, Str_a}
RegUsernames == {Str_u, Str_v}
\* the usernames of the users the other specifications store, in the order
\* in which they are created
StoreUsernames == <<Str_u, Str_v, Str_w, Str_y>>
NextUsername(rows) == StoreUsernames[Len(rows) + 1]

\* the manager on every short argument
EmailChars == {"a", "A", "@", " "}
PhoneChars == {"7", "@"}
Opt(S) == {None} \cup {Some(s) : s \in S}
ManagerCalls ==
    [ op           : {"create_user", "create_superuser"},
      email        : Opt(SeqsUpTo(EmailChars, MaxEmailLen)),
      phone_number : Opt(SeqsUpTo(PhoneChars, MaxPhoneLen)),
      username     : {None, Some(<< >>), Some(Str_u)},
      extra        : {NoExtra, [is_superuser |-> TRUE], [is_superuser |-> FALSE]} ]

\* role updates
RoleArgs == RoleChoices \cup {"bogus"}

\* password changes
PasswordChanges ==
    { [old_password |-> << >>,  new_password |-> Str_q, new_ok |-> TRUE],
      [old_password |-> Str_p,  new_password |-> << >>, new_ok |-> TRUE],
      [old_password |-> Str_p,  new_password |-> Str_q, new_ok |-> FALSE],
      [old_password |-> Str_p,  new_password |-> Str_q, new_ok |-> TRUE],
      [old_password |-> Str_p,  new_password |-> Str_p, new_ok |-> TRUE],
      [old_password |-> Str_q,  new_password |-> Str_p, new_ok |-> TRUE] }

\* user and profile updates
UpdateRequests ==
    { [data |-> [first_name |-> Str_x], profile_data |-> None],
      [data |-> [first_name |-> Str_x], profile_data |-> Some(Str_x)],
      [data |-> [first_name |-> Str_x, username |-> Str_v], profile_data |-> None] }

-----------------------------------------------------------------------------
(* Specifications.                                                         *)

\* The manager and the registration endpoint on one store, with the two
\* calls of a registration interleaved with other requests.
NextAccounts ==
    \/ \E ph \in AcctPhones, e \in AcctEmails, un \in AcctUsernames, x \in UserExtras :
          CreateUser(ph, e, Some(Str_p), un, x)
    \/ \E ph \in AcctPhones, e \in AcctEmails, un \in AcctUsernames, x \in SuperuserExtras :
          CreateSuperuser(e, ph, Some(Str_p), un, x)
    \/ \E un \in RegUsernames, e \in RegEmails, ok \in BOOLEAN :
          RegisterValidate(un, e, Str_p, NoExtra, ok)
    \/ \E t \in InFlight(inflight) : RegisterSave(t)

Spec == Init /\ [][NextAccounts]_vars

\* One manager call, on every short argument.
InitManager ==
    /\ users = << >>
    /\ profiles = << >>
    /\ last = [op |-> "init", err |-> "none"]
    /\ req \in ManagerCalls
    /\ inflight = EmptyBag

ManagerCall ==
    /\ last.op = "init"
    /\ \/ /\ req.op = "create_user"
          /\ CreateUser(req.phone_number, req.email, Some(Str_p), req.username, req.extra)
       \/ /\ req.op = "create_superuser"
          /\ CreateSuperuser(req.email, req.phone_number, Some(Str_p), req.username, req.extra)

SpecManager == InitManager /\ [][ManagerCall]_vars

\* The manager and role updates, with the two calls of a role update
\* interleaved with other requests.
NextRole ==
    \/ CreateUser(None, None, Some(Str_p), Some(NextUsername(users)), NoExtra)
    \/ CreateSuperuser(None, None, Some(Str_p), Some(NextUsername(users)), NoExtra)
    \/ \E i \in Ids, role \in RoleArgs, declares_choices \in BOOLEAN :
          UpdateRoleValidate(i, role, declares_choices)
    \/ \E t \in InFlight(inflight) : UpdateRoleSave(t)

SpecRole == Init /\ [][NextRole]_vars

\* The manager and password changes, with the two calls of a password
\* change interleaved with other requests.
NextPassword ==
    \/ CreateUser(None, None, Some(Str_p), Some(NextUsername(users)), NoExtra)
    \/ \E cu \in Ids, i \in Ids, c \in PasswordChanges :
          ChangePasswordValidate(cu, i, c.old_password, c.new_password, c.new_ok)
    \/ \E t \in InFlight(inflight) : ChangePasswordSave(t)

SpecPassword == Init /\ [][NextPassword]_vars

\* The manager and user updates, with the steps of an update interleaved
\* with other requests.
NextUpdate ==
    \/ CreateUser(None, None, Some(Str_p), Some(NextUsername(users)), NoExtra)
    \/ \E i \in Ids, r \in UpdateRequests : UpdateValidate(i, r.data, r.profile_data)
    \/ \E t \in InFlight(inflight) : UpdateUser(t)
    \/ \E t \in InFlight(inflight), valid \in BOOLEAN : UpdateProfile(t, valid)
    \/ \E t \in InFlight(inflight) : UpdateCommit(t)

SpecUpdate == Init /\ [][NextUpdate]_vars

-----------------------------------------------------------------------------
(* Properties of the manager and the registration (Spec).                  *)

ManagerOps == {"create_user", "create_superuser"}

\* an argument that is absent (None) or empty ('')
Absent(o) == o = None \/ o = Some(<< >>)
NoIdentifier(call) ==
    Absent(call.email) /\ Absent(call.phone_number) /\ Absent(call.username)
PassedFalse(extra, k) == Has(extra, k) /\ extra[k] = FALSE

\* C1, as stated: every create_user or create_superuser call whose email,
\* phone_number and username are all absent or empty ends with ParseError
\* and leaves the stored users unchanged.
C1_NoIdentifierParseError ==
    [][ (last'.op \in ManagerOps /\ NoIdentifier(last'))
          => (last'.err = "ParseError" /\ users' = users) ]_vars

\* C1, amended: such a call ends with an error and leaves the stored users
\* unchanged; the error is ParseError, except that create_superuser called
\* with is_superuser false ends with ValueError (that check comes first).
C1_NoIdentifierError ==
    [][ (last'.op \in ManagerOps /\ NoIdentifier(last'))
          => /\ users' = users
             /\ last'.err = IF last'.op = "create_superuser"
                               /\ PassedFalse(last'.extra, "is_superuser")
                            THEN "ValueError" ELSE "ParseError" ]_vars

\* C1 witness: with a user stored, a create_user call with an empty email
\* and nothing else has ended with ParseError.
C1_Witness ==
    /\ Len(users) > 0
    /\ last.op = "create_user" /\ last.email = Some(<< >>) /\ NoIdentifier(last)
    /\ last.err = "ParseError"

\* C2: every user that create_superuser saves has is_superuser true and the
\* role ADMIN; a create_superuser call that passes is_superuser false ends
\* with ValueError and saves no user.
C2_SuperuserIsAdmin ==
    [][ last'.op = "create_superuser"
          => /\ PassedFalse(last'.extra, "is_superuser")
                  => (last'.err = "ValueError" /\ users' = users)
             /\ users' # users
                  => /\ Len(users') = Len(users) + 1
                     /\ users'[Len(users')].is_superuser
                     /\ users'[Len(users')].role = ADMIN ]_vars

\* C2 witness: create_superuser, called with the role MANAGER, has saved a
\* user.
C2_Witness ==
    /\ last.op = "create_superuser" /\ last.err = "none"
    /\ Has(last.extra, "role") /\ last.extra["role"] = MANAGER
    /\ Len(users) > 0 /\ users[Len(users)].is_superuser

\* C4, as stated, its registration part without the kind of the error: the
\* save() of a registration whose email equals, ignoring letter case, the
\* email of a stored user is refused and creates no user.
C4_DuplicateEmailRejected ==
    [][ (/\ last'.op = "register" /\ last'.step = "save"
         /\ \E i \in Ids : /\ users[i].email # None
                           /\ Lower(users[i].email[1]) = Lower(last'.email))
          => (last'.err # "none" /\ users' = users) ]_vars

-----------------------------------------------------------------------------
(* Properties of one manager call (SpecManager).                           *)

\* p is the part of s before its first '@' (all of s when it holds none)
IsPartBeforeAt(p, s) ==
    /\ Len(p) <= Len(s)
    /\ \A i \in 1..Len(p) : p[i] = s[i] /\ p[i] # "@"
    /\ Len(p) = Len(s) \/ s[Len(p) + 1] = "@"

Saved == users[Len(users)]
Succeeded == last.op \in ManagerOps /\ last.err = "none"

\* C3, as stated: after a successful call a given username is saved
\* unchanged; without one the saved username is the part of the saved
\* (normalized) email before its first '@' when an email is given, and
\* otherwise the phone number itself.
C3_UsernamePhoneItself ==
    Succeeded =>
        IF Truthy(last.username) THEN Saved.username = last.username[1]
        ELSE IF Truthy(last.email) THEN IsPartBeforeAt(Saved.username, Saved.email[1])
        ELSE Saved.username = last.phone_number[1]

\* C3, amended: as stated, except that the phone number, like the email, is
\* cut at its first '@'.
C3_UsernameDerived ==
    Succeeded =>
        IF Truthy(last.username) THEN Saved.username = last.username[1]
        ELSE IF Truthy(last.email) THEN IsPartBeforeAt(Saved.username, Saved.email[1])
        ELSE IsPartBeforeAt(Saved.username, last.phone_number[1])

\* C3 witness: a call with an email that holds '@' and a phone number, and
\* no username, has saved a user with a username.
C3_Witness ==
    /\ Succeeded
    /\ ~Truthy(last.username) /\ Truthy(last.email) /\ Truthy(last.phone_number)
    /\ HasAt(Saved.email[1])
    /\ Saved.username # << >>

\* C10, as stated, for the calls that give an email: the user such a call
\* saves has a non-empty username.
C10_UsernameNonEmpty ==
    (Succeeded /\ Truthy(last.email)) => Saved.username # << >>

-----------------------------------------------------------------------------
(* Properties of role updates (SpecRole).                                  *)

\* C7, as stated, at update: the save() of a role update with a role that
\* is not one of the Role choices ends with ParseError and leaves the
\* stored role and is_staff of the user unchanged.
C7_UnknownRoleRejected ==
    [][ (last'.op = "update_role" /\ last'.step = "save" /\ last'.role \notin RoleChoices)
          => /\ last'.err = "ParseError"
             /\ users'[last'.instance].role = users[last'.instance].role
             /\ users'[last'.instance].is_staff = users[last'.instance].is_staff ]_vars

\* C8, as stated: a stored user is staff if and only if its role is ADMIN or
\* MANAGER.
C8_StaffFollowsRole ==
    \A i \in Ids : users[i].is_staff <=> users[i].role \in {ADMIN, MANAGER}

-----------------------------------------------------------------------------
(* Properties of password changes (SpecPassword).                          *)

Matches(rows, c) == check_password(rows[c.current_user], Some(c.old_password))
FieldsValid(c) == c.old_password # << >> /\ c.new_password # << >> /\ c.new_ok
\* the raw passwords of the requests
RawPasswords == {c.old_password : c \in PasswordChanges} \cup {c.new_password : c \in PasswordChanges}
\* new_password, and no other raw password, authenticates the instance
NewPasswordSet(rows, c) ==
    \A raw \in RawPasswords :
        check_password(rows[c.instance], Some(raw)) <=> raw = c.new_password

\* C5, as stated: is_valid() ends with ParseError for a request whose
\* old_password does not match the current password and stores nothing;
\* a request whose old_password matches, with a new_password that passes
\* its validation, goes on and its save() leaves the password equal to
\* new_password.
C5_WrongOldParseError ==
    [][ last'.op = "change_password"
          => /\ last'.step = "is_valid"
                   => /\ users' = users
                      /\ ~Matches(users, last') => last'.err = "ParseError"
                      /\ (Matches(users, last') /\ last'.new_password # << >> /\ last'.new_ok)
                            => last'.err = "pending"
             /\ last'.step = "save"
                   => (last'.err = "none" /\ NewPasswordSet(users', last')) ]_vars

\* C5, amended: is_valid() stores nothing; it rejects a request whose
\* old_password does not match the password the current user has at that
\* moment, with ParseError when both fields pass the field validation and
\* with ValidationError when one does not, and it accepts a request whose
\* old_password matches and whose fields pass the field validation.  The
\* save() of an accepted request leaves the password of the instance equal
\* to new_password, and every other row as it was.
C5_WrongOldRejected ==
    [][ last'.op = "change_password"
          => /\ last'.step = "is_valid"
                   => /\ users' = users
                      /\ ~Matches(users, last')
                            => /\ inflight' = inflight
                               /\ last'.err = IF FieldsValid(last') THEN "ParseError"
                                              ELSE "ValidationError"
                      /\ (Matches(users, last') /\ FieldsValid(last'))
                            => last'.err = "pending"
             /\ last'.step = "save"
                   => /\ last'.err = "none"
                      /\ NewPasswordSet(users', last')
                      /\ \A i \in Ids \ {last'.instance} : users'[i] = users[i] ]_vars

\* C5 witness: an accepted request has been saved, and the password of the
\* instance is new_password and no longer the one the request had loaded.
C5_Witness ==
    /\ last.op = "change_password" /\ last.step = "save" /\ last.err = "none"
    /\ check_password(users[last.instance], Some(last.new_password))
    /\ ~check_password(last.object, Some(last.new_password))
    /\ inflight = EmptyBag

\* C9, as stated: is_valid() accepts a password change of a user only when
\* the old_password of the request matches that user's own password.
C9_OwnPasswordChecked ==
    [][ (last'.op = "change_password" /\ last'.step = "is_valid" /\ last'.err = "pending")
          => check_password(users[last'.instance], Some(last'.old_password)) ]_vars

-----
(* Properties of user updates (SpecUpdate).                                *)

\* the open block on row i, if there is one
BlocksOn(S, i) == {t \in OpenBlocks(S) : t.instance = i}

\* C6: the update is all or nothing in the committed rows.  The step that
\* ends the block of an update of a row without an error stores the user
\* fields of the update and, when the update carries profile data, its
\* profile fields together; every other step, the one that ends the block
\* with an error among them, leaves the user and the profile of the row as
\* they were.
C6_AllOrNothing ==
    [][ \A i \in Ids :
          LET ended == IF BlocksOn(inflight', i) = {} THEN BlocksOn(inflight, i) ELSE {}
          IN  IF ended # {} /\ last' = UpdateCall("save", "none")
              THEN \A t \in ended :
                      /\ users'[i] = t.user
                      /\ profiles'[i] = IF Truthy(t.profile_data) THEN t.profile_data[1]
                                        ELSE profiles[i]
              ELSE users'[i] = users[i] /\ profiles'[i] = profiles[i] ]_vars

\* C6 witness: the profile part of an update of the only user has failed
\* after the user part was saved with a change, and the stored user and
\* profile are without the change.
C6_Witness ==
    /\ last = UpdateCall("save", "ValidationError")
    /\ Len(users) = 1 /\ inflight = EmptyBag
    /\ users[1].first_name = << >> /\ profiles[1] = DefaultProfile

====
